---- MODULE Spec2Model ----
(***************************************************************************)
(* Model of src/streamlit_app.py: a timed card-matching vocabulary game    *)
(* written as a Streamlit script.  Every user interaction (and every       *)
(* st.rerun()) executes main() from the top; one action of the model is    *)
(* one such execution, selected by the value of st.session_state and by    *)
(* the widget that was clicked.                                            *)
(*                                                                         *)
(* Conventions.                                                            *)
(*  - A word is represented by its English term ("en"); the Japanese side  *)
(*    ("jp"), the card texts and the displayed count are rendering data    *)
(*    derived from the term and are not part of the state.                 *)
(*  - Card positions are 1-based here (0-based in the source).             *)
(*  - elapsed stands for time.time() - st.session_state.start_time.        *)
(*  - A table of the remote store is kept per key: mistaken_words[w] is    *)
(*    the sequence of correct_count values of the rows whose word_en is w, *)
(*    in insertion order (empty when there is no row).                     *)
(*  - The Pokedex (the sprite lookup, the table user_pokedex and the     *)
(*    session fields current_poke_id, current_poke_img, is_new_discovery)  *)
(*    is display state that no rule of the game reads; it is left out.     *)
(*  - The store is shared by all sessions.  calls[s] is what a session s    *)
(*    other than the one whose session_state is modelled is doing in the   *)
(*    store: the function it is in, the key, the rows its select returned  *)
(*    and the number of calls it may still start.                          *)
(*  - Every call to the store may raise; the callers swallow the           *)
(*    exception ("except: pass").  The outcome is the input ok of the      *)
(*    operators below.                                                     *)
(***************************************************************************)
EXTENDS Integers, Sequences, FiniteSets, TLC

VARIABLES
    game_state,         \* st.session_state.game_state
    cards,              \* st.session_state.cards
    flipped,            \* st.session_state.flipped
    matched,            \* st.session_state.matched
    collected_now,      \* st.session_state.collected_now
    mistakes_now,       \* st.session_state.mistakes_now
    mastered_pending,   \* st.session_state.mastered_pending
    current_mode,       \* st.session_state.current_mode
    elapsed,            \* time.time() - st.session_state.start_time
    time_limit,         \* st.session_state.time_limit
    last_matched_word,  \* st.session_state.last_matched_word
    is_cleared,         \* st.session_state.is_cleared
    feedback,           \* the judgement the last execution announced
    mistaken_words,     \* table mistaken_words of the store
    rounds,             \* number of rounds started so far (bounds the run)
    calls               \* the store calls of the other sessions, per session

vars == <<game_state, cards, flipped, matched, collected_now, mistakes_now,
          mastered_pending, current_mode, elapsed, time_limit,
          last_matched_word, is_cleared, feedback, mistaken_words, rounds,
          calls>>

----------------------------------------------------------------------------
(* Bounds of the model *)

MaxRounds == 2      \* rounds started in one behaviour
ClockStep == 15     \* seconds between two observations of the clock
MaxElapsed == 40    \* the clock of a round is not observed beyond this
StartCount == 9     \* correct_count of the rows present at the start
MaxCalls == 2       \* store functions one other session enters

(* Program constants *)

NormalTimeLimit == 30
RevengeTimeLimit == 40
RevengeLimit == 8
MasterCount == 10
DefaultCorrectCount == 0

None == "None"     \* no word

\* The judgements an execution announces.
Quiet == "Quiet"        \* nothing was judged
Gotcha == "Gotcha"      \* st.toast("Gotcha! ...")
Escaped == "Escaped"    \* st.error of the mismatch branch
Graduated == "Graduated"    \* st.success of the graduation button

----------------------------------------------------------------------------
(* Words *)

\* The table generate_quiz_words returns without an API key.
FallbackTable ==
    <<"Strategy", "Efficiency", "Deadline", "Negotiate",
      "Inquiry", "Expand", "Launch", "Budget">>

\* The list generate_quiz_words returns when the generator fails.
ErrorWords == <<"Error">>

Range(s) == {s[i] : i \in 1..Len(s)}

\* The words of the model: the word of the failure list and the first word
\* of the fallback table.  A deck then has up to two pairs, four cards and
\* twenty-four arrangements.
Words == Range(ErrorWords) \cup {Head(FallbackTable)}

\* The fallback table, cut down to the words of the model.
StaticWords == SelectSeq(FallbackTable, LAMBDA w : w \in Words)

SeqsUpTo(S, n) == UNION {[1..k -> S] : k \in 0..n}

\* What json.loads(response.text) can be: any list of entries.
GeneratedLists == SeqsUpTo(Words, Cardinality(Words))

----------------------------------------------------------------------------
(* The store: section "DB" of the source *)

save_mistake_Upsert(db, en, ok) ==
    IF ok THEN [db EXCEPT ![en] = <<DefaultCorrectCount>>] ELSE db

\* save_mistake(en, jp): select by word_en, insert when nothing was found.
\* The insert leaves correct_count to the column default.
save_mistake(db, en, ok) ==
    IF ok /\ db[en] = <<>>
    THEN [db EXCEPT ![en] = <<DefaultCorrectCount>>]
    ELSE db

increment_correct_count_Graduating(db, en, ok) ==
    IF ok /\ db[en] # <<>>
    THEN LET new_val == db[en][1] + 1
         IN  [ret |-> new_val,
              db  |-> [db EXCEPT ![en] = IF new_val >= MasterCount THEN <<>>
                                         ELSE [k \in 1..Len(db[en]) |-> new_val]]]
    ELSE [ret |-> 0, db |-> db]

\* increment_correct_count(en): the value returned and the table afterwards.
increment_correct_count(db, en, ok) ==
    IF ok /\ db[en] # <<>>
    THEN LET new_val == db[en][1] + 1
         IN  [ret |-> new_val,
              db  |-> [db EXCEPT ![en] = [k \in 1..Len(db[en]) |-> new_val]]]
    ELSE [ret |-> 0, db |-> db]

\* delete_mistake(en)
delete_mistake(db, en, ok) ==
    IF ok THEN [db EXCEPT ![en] = <<>>] ELSE db

RECURSIVE SumLen(_, _)
SumLen(db, S) ==
    IF S = {} THEN 0
    ELSE LET w == CHOOSE x \in S : TRUE
         IN  Len(db[w]) + SumLen(db, S \ {w})

\* get_mistakes_count()
get_mistakes_count(db, ok) ==
    IF ok THEN SumLen(db, Words) ELSE 0

\* The rows of the table, each named by its key and its rank under the key.
Rows(db) == UNION {{<<w, k>> : k \in 1..Len(db[w])} : w \in Words}

Min(a, b) == IF a <= b THEN a ELSE b

\* fetch_revenge_words(limit): the lists it can return (terms of the chosen
\* rows, in the shuffled order).
fetch_revenge_words(db, limit, ok) ==
    IF ~ok \/ Rows(db) = {} THEN {<<>>}
    ELSE LET n == Min(limit, Cardinality(Rows(db)))
         IN  {[i \in 1..n |-> f[i][1]] :
                 f \in {g \in [1..n -> Rows(db)] :
                          \A i, j \in 1..n : i # j => g[i] # g[j]}}

\* generate_quiz_words(api_key, rank_prompt): the lists it can return.
generate_quiz_words(has_key) ==
    IF ~has_key THEN {StaticWords}
    ELSE GeneratedLists \cup {ErrorWords}


----------------------------------------------------------------------------
(* Game logic: init_game *)

\* The two cards of every entry, in the order init_game appends them.
Deal(word_list) ==
    [i \in 1..2 * Len(word_list) |->
        [id |-> word_list[(i + 1) \div 2], is_jp |-> (i % 2 = 0)]]

\* random.shuffle(cards): every arrangement of the cards.
Shuffle(s) ==
    {[i \in 1..Len(s) |-> s[p[i]]] : p \in Permutations(1..Len(s))}

init_game_StaleCollected(word_list, limit, mode) ==
    /\ cards' \in Shuffle(Deal(word_list))
    /\ flipped' = <<>>
    /\ matched' = {}
    /\ collected_now' = collected_now
    /\ mistakes_now' = <<>>
    /\ mastered_pending' = <<>>
    /\ current_mode' = mode
    /\ elapsed' = 0
    /\ time_limit' = limit
    /\ game_state' = "PLAYING"
    /\ last_matched_word' = None
    /\ is_cleared' = FALSE
    /\ feedback' = Quiet
    /\ rounds' = rounds + 1

\* init_game(word_list, time_limit, mode): deals the deck of a new round and
\* resets the session fields of the round.
init_game(word_list, limit, mode) ==
    /\ cards' \in Shuffle(Deal(word_list))
    /\ flipped' = <<>>
    /\ matched' = {}
    /\ collected_now' = <<>>
    /\ mistakes_now' = <<>>
    /\ mastered_pending' = <<>>
    /\ current_mode' = mode
    /\ elapsed' = 0
    /\ time_limit' = limit
    /\ game_state' = "PLAYING"
    /\ last_matched_word' = None
    /\ is_cleared' = FALSE
    /\ feedback' = Quiet
    /\ rounds' = rounds + 1

----------------------------------------------------------------------------
(* A. Start screen (game_state = "IDLE") *)

\* "Battle start" with one of the ranks selected.
StartNormal ==
    /\ game_state = "IDLE"
    /\ rounds < MaxRounds
    /\ \E has_key \in BOOLEAN :
         \E quiz_data \in generate_quiz_words(has_key) :
            init_game(quiz_data, NormalTimeLimit, "NORMAL")
    /\ UNCHANGED <<mistaken_words, calls>>

\* "Revenge battle start" with the review mode selected.
StartRevenge ==
    /\ game_state = "IDLE"
    /\ rounds < MaxRounds
    /\ \E ok_count \in BOOLEAN, ok_fetch \in BOOLEAN :
         /\ get_mistakes_count(mistaken_words, ok_count) # 0
         /\ \E revenge_words \in
                 fetch_revenge_words(mistaken_words, RevengeLimit, ok_fetch) :
              /\ revenge_words # <<>>
              /\ init_game(revenge_words, RevengeTimeLimit, "REVENGE")
    /\ UNCHANGED <<mistaken_words, calls>>

----------------------------------------------------------------------------
(* B. Playing (game_state = "PLAYING") *)

remaining == time_limit - elapsed

TimeIsUp_Late == remaining < 0

TimeIsUp_Never == FALSE

\* "if remaining <= 0"
TimeIsUp == remaining <= 0

Disabled_Never(i) == FALSE

\* A button is rendered disabled when its card's pair is matched.
Disabled(i) == cards[i].id \in matched

FlipAccepted_NoLimit(i) == i \notin Range(flipped)

\* "if not is_flipped and len(st.session_state.flipped) < 2"
FlipAccepted(i) == i \notin Range(flipped) /\ Len(flipped) < 2

SamePair_BySide(c1, c2) == c1.is_jp # c2.is_jp

\* "if c1["id"] == c2["id"]"
SamePair(c1, c2) == c1.id = c2.id

\* "if len(st.session_state.matched) * 2 == len(st.session_state.cards)"
AllMatched(m) == Cardinality(m) * 2 = Len(cards)

LogsMistake_Always == TRUE

\* "if st.session_state.current_mode == "NORMAL"" of the mismatch branch
LogsMistake == current_mode = "NORMAL"

CountsSuccess_Always == TRUE

\* "if st.session_state.current_mode == "REVENGE"" of the match branch
CountsSuccess == current_mode = "REVENGE"

IsMastered_Strict(new_val) == new_val > MasterCount

\* "if increment_correct_count(c1["id"]) >= 10"
IsMastered(new_val) == new_val >= MasterCount

\* The clock is read at the top of an execution; time passes between two.
Tick ==
    /\ game_state = "PLAYING"
    /\ elapsed < MaxElapsed
    /\ elapsed' = elapsed + ClockStep
    /\ UNCHANGED <<game_state, cards, flipped, matched, collected_now,
                   mistakes_now, mastered_pending, current_mode, time_limit,
                   last_matched_word, is_cleared, feedback, mistaken_words,
                   rounds, calls>>

\* An execution that finds the time used up, whatever was clicked.
TimeUp ==
    /\ game_state = "PLAYING"
    /\ TimeIsUp
    /\ game_state' = "FINISHED"
    /\ is_cleared' = FALSE
    /\ last_matched_word' = None
    /\ feedback' = Quiet
    /\ UNCHANGED <<cards, flipped, matched, collected_now, mistakes_now,
                   mastered_pending, current_mode, elapsed, time_limit,
                   mistaken_words, rounds,
                   calls>>

\* A click on the button of card i that is accepted.
Flip(i) ==
    /\ game_state = "PLAYING"
    /\ ~TimeIsUp
    /\ i \in 1..Len(cards)
    /\ ~Disabled(i)
    /\ FlipAccepted(i)
    /\ flipped' = Append(flipped, i)
    /\ last_matched_word' = None
    /\ feedback' = Quiet
    /\ UNCHANGED <<game_state, cards, matched, collected_now, mistakes_now,
                   mastered_pending, current_mode, elapsed, time_limit,
                   is_cleared, mistaken_words, rounds,
                   calls>>

\* An execution with fewer than two cards face-up and no accepted click:
\* the word of the last match is pronounced once and forgotten.
Announce ==
    /\ game_state = "PLAYING"
    /\ ~TimeIsUp
    /\ Len(flipped) < 2
    /\ last_matched_word # None
    /\ last_matched_word' = None
    /\ feedback' = Quiet
    /\ UNCHANGED <<game_state, cards, flipped, matched, collected_now,
                   mistakes_now, mastered_pending, current_mode, elapsed,
                   time_limit, is_cleared, mistaken_words, rounds,
                   calls>>

\* An execution that finds two cards of one pair face-up.  A click made in
\* this execution is rejected by FlipAccepted and changes nothing.
Match ==
    /\ game_state = "PLAYING"
    /\ ~TimeIsUp
    /\ Len(flipped) = 2
    /\ LET c1 == cards[flipped[1]]
           c2 == cards[flipped[2]]
           fresh == c1.id \notin Range(collected_now)
       IN
       /\ SamePair(c1, c2)
       /\ \E ok \in BOOLEAN :
            LET inc == IF fresh /\ CountsSuccess
                       THEN increment_correct_count(mistaken_words, c1.id, ok)
                       ELSE [ret |-> 0, db |-> mistaken_words]
                done == AllMatched(matched \cup {c1.id})
            IN
            /\ feedback' = Gotcha
            /\ matched' = matched \cup {c1.id}
            /\ last_matched_word' = c1.id
            /\ collected_now' = IF fresh THEN Append(collected_now, c1.id)
                                ELSE collected_now
            /\ mistaken_words' = inc.db
            /\ mastered_pending' =
                   IF fresh /\ CountsSuccess /\ IsMastered(inc.ret)
                   THEN Append(mastered_pending, c1.id)
                   ELSE mastered_pending
            /\ flipped' = <<>>
            /\ is_cleared' = IF done THEN TRUE ELSE is_cleared
            /\ game_state' = IF done THEN "FINISHED" ELSE game_state
    /\ UNCHANGED <<cards, mistakes_now, current_mode, elapsed, time_limit,
                   rounds, calls>>

\* An execution that finds two cards of different pairs face-up.
Mismatch ==
    /\ game_state = "PLAYING"
    /\ ~TimeIsUp
    /\ Len(flipped) = 2
    /\ LET c1 == cards[flipped[1]]
           c2 == cards[flipped[2]]
       IN
       /\ ~SamePair(c1, c2)
       /\ feedback' = Escaped
       /\ \E ok \in BOOLEAN :
            /\ mistaken_words' =
                   IF LogsMistake
                   THEN save_mistake(mistaken_words, c1.id, ok)
                   ELSE mistaken_words
            /\ mistakes_now' =
                   IF LogsMistake /\ c1.id \notin Range(mistakes_now)
                   THEN Append(mistakes_now, c1.id)
                   ELSE mistakes_now
       /\ flipped' = <<>>
    /\ last_matched_word' = None
    /\ UNCHANGED <<game_state, cards, matched, collected_now,
                   mastered_pending, current_mode, elapsed, time_limit,
                   is_cleared, rounds, calls>>

----------------------------------------------------------------------------
(* C. Result screen (game_state = "FINISHED") *)

\* "for w in pending: delete_mistake(w)", each call with its own outcome.
RECURSIVE DeleteAll(_, _, _)
DeleteAll(db, pending, oks) ==
    IF pending = <<>> THEN db
    ELSE DeleteAll(delete_mistake(db, Head(pending), Head(oks)),
                   Tail(pending), Tail(oks))

\* "if mistakes and st.session_state.current_mode == "NORMAL""
OffersReview == mistakes_now # <<>> /\ current_mode = "NORMAL"

\* The button that deletes the graduation candidates from the list.
Graduate ==
    /\ game_state = "FINISHED"
    /\ mastered_pending # <<>>
    /\ \E oks \in [1..Len(mastered_pending) -> BOOLEAN] :
         mistaken_words' = DeleteAll(mistaken_words, mastered_pending, oks)
    /\ mastered_pending' = <<>>
    /\ feedback' = Graduated
    /\ UNCHANGED <<game_state, cards, flipped, matched, collected_now,
                   mistakes_now, current_mode, elapsed, time_limit,
                   last_matched_word, is_cleared, rounds, calls>>

Keep_Resets ==
    /\ game_state = "FINISHED"
    /\ mastered_pending # <<>>
    /\ mastered_pending' = <<>>
    /\ feedback' = Quiet
    /\ mistaken_words' =
           [w \in Words |-> IF w \in Range(mastered_pending)
                            THEN <<DefaultCorrectCount>>
                            ELSE mistaken_words[w]]
    /\ UNCHANGED <<game_state, cards, flipped, matched, collected_now,
                   mistakes_now, current_mode, elapsed, time_limit,
                   last_matched_word, is_cleared, rounds, calls>>

\* The button that keeps the graduation candidates in the list.
Keep ==
    /\ game_state = "FINISHED"
    /\ mastered_pending # <<>>
    /\ mastered_pending' = <<>>
    /\ feedback' = Quiet
    /\ UNCHANGED <<game_state, cards, flipped, matched, collected_now,
                   mistakes_now, current_mode, elapsed, time_limit,
                   last_matched_word, is_cleared, mistaken_words, rounds,
                   calls>>

\* The button that starts a review round from this round's mistakes.
ReviewNow ==
    /\ game_state = "FINISHED"
    /\ OffersReview
    /\ rounds < MaxRounds
    /\ init_game(mistakes_now, NormalTimeLimit, "REVENGE")
    /\ UNCHANGED <<mistaken_words, calls>>

\* The button that returns to the start screen.
BackToTitle ==
    /\ game_state = "FINISHED"
    /\ game_state' = "IDLE"
    /\ feedback' = Quiet
    /\ UNCHANGED <<cards, flipped, matched, collected_now, mistakes_now,
                   mastered_pending, current_mode, elapsed, time_limit,
                   last_matched_word, is_cleared, mistaken_words, rounds,
                   calls>>

----------------------------------------------------------------------------
(* Specification *)

\* The table holds the rows left by earlier sessions; the session is new.
\* The other sessions that use the store.
Sessions == {"s1", "s2"}

\* A session that is in none of the store functions.
Idle(left) == [op |-> "idle", en |-> None, data |-> <<>>, left |-> left]

\* session_state before the first round, and the table as it is found.
SessionInit ==
    /\ game_state = "IDLE"
    /\ cards = <<>>
    /\ flipped = <<>>
    /\ matched = {}
    /\ collected_now = <<>>
    /\ mistakes_now = <<>>
    /\ mastered_pending = <<>>
    /\ current_mode = "NONE"
    /\ elapsed = 0
    /\ time_limit = 0
    /\ last_matched_word = None
    /\ is_cleared = FALSE
    /\ feedback = Quiet
    /\ mistaken_words \in [Words -> {<<>>, <<StartCount>>}]
    /\ rounds = 0

\* One session on its own.
Init ==
    /\ SessionInit
    /\ calls = [s \in Sessions |-> Idle(0)]

Next ==
    \/ StartNormal
    \/ StartRevenge
    \/ Tick
    \/ TimeUp
    \/ \E i \in 1..Len(cards) : Flip(i)
    \/ Announce
    \/ Match
    \/ Mismatch
    \/ Graduate
    \/ Keep
    \/ ReviewNow
    \/ BackToTitle

Spec == Init /\ [][Next]_vars

\* Time passes and the script is executed again once the time is used up.
FairSpec == Spec /\ WF_vars(Tick) /\ WF_vars(TimeUp)

----------------------------------------------------------------------------
(* The store functions as other sessions run them: one action per request *)

session_state == <<game_state, cards, flipped, matched, collected_now,
                   mistakes_now, mastered_pending, current_mode, elapsed,
                   time_limit, last_matched_word, is_cleared, feedback,
                   rounds>>

\* save_mistake, first request: select the rows of the key.  The function
\* returns when a row was found or the request raised.
SelectMistake(s, en) ==
    /\ calls[s].op = "idle"
    /\ calls[s].left > 0
    /\ \E ok \in BOOLEAN :
         calls' = [calls EXCEPT ![s] =
                     IF ok /\ mistaken_words[en] = <<>>
                     THEN [op |-> "save_mistake", en |-> en, data |-> <<>>,
                           left |-> calls[s].left - 1]
                     ELSE Idle(calls[s].left - 1)]
    /\ UNCHANGED <<session_state, mistaken_words>>

\* save_mistake, second request: insert a row for the key.
InsertMistake(s) ==
    /\ calls[s].op = "save_mistake"
    /\ \E ok \in BOOLEAN :
         mistaken_words' =
             IF ok
             THEN [mistaken_words EXCEPT
                     ![calls[s].en] = Append(@, DefaultCorrectCount)]
             ELSE mistaken_words
    /\ calls' = [calls EXCEPT ![s] = Idle(calls[s].left)]
    /\ UNCHANGED session_state

\* increment_correct_count, first request: select the rows of the key.
SelectCount(s, en) ==
    /\ calls[s].op = "idle"
    /\ calls[s].left > 0
    /\ \E ok \in BOOLEAN :
         calls' = [calls EXCEPT ![s] =
                     IF ok /\ mistaken_words[en] # <<>>
                     THEN [op |-> "increment_correct_count", en |-> en,
                           data |-> mistaken_words[en],
                           left |-> calls[s].left - 1]
                     ELSE Idle(calls[s].left - 1)]
    /\ UNCHANGED <<session_state, mistaken_words>>

\* increment_correct_count, second request: update the rows of the key.
UpdateCount(s) ==
    /\ calls[s].op = "increment_correct_count"
    /\ \E ok \in BOOLEAN :
         mistaken_words' =
             IF ok
             THEN [mistaken_words EXCEPT
                     ![calls[s].en] =
                        [k \in 1..Len(@) |-> calls[s].data[1] + 1]]
             ELSE mistaken_words
    /\ calls' = [calls EXCEPT ![s] = Idle(calls[s].left)]
    /\ UNCHANGED session_state

\* delete_mistake: one request.
DeleteMistake(s, en) ==
    /\ calls[s].op = "idle"
    /\ calls[s].left > 0
    /\ \E ok \in BOOLEAN :
         mistaken_words' = delete_mistake(mistaken_words, en, ok)
    /\ calls' = [calls EXCEPT ![s] = Idle(calls[s].left - 1)]
    /\ UNCHANGED session_state

\* Sessions that only use the store.
RaceInit ==
    /\ SessionInit
    /\ calls = [s \in Sessions |-> Idle(MaxCalls)]

RaceNext ==
    \/ \E s \in Sessions, en \in Words : SelectMistake(s, en)
    \/ \E s \in Sessions : InsertMistake(s)
    \/ \E s \in Sessions, en \in Words : SelectCount(s, en)
    \/ \E s \in Sessions : UpdateCount(s)
    \/ \E s \in Sessions, en \in Words : DeleteMistake(s, en)

RaceSpec == RaceInit /\ [][RaceNext]_vars


----------------------------------------------------------------------------
(* Properties of a round *)

FaceUp == Range(flipped)

DeckIds == {cards[i].id : i \in 1..Len(cards)}

\* A step that judges the two face-up cards.
Judging ==
    /\ game_state = "PLAYING"
    /\ Len(flipped) = 2
    /\ ~TimeIsUp
    /\ feedback' \in {Gotcha, Escaped}
    /\ elapsed' = elapsed

\* C1: in every reachable state at most two positions are face-up, whatever
\* the order of the flips, also for flips attempted while two cards are
\* face-up and not yet judged.
C1_AtMostTwoFaceUp == Len(flipped) <= 2

\* Two cards are face-up and unjudged, and a third card could be clicked.
C1_Witness ==
    /\ game_state = "PLAYING"
    /\ Len(flipped) = 2
    /\ \E i \in 1..Len(cards) : i \notin FaceUp /\ ~Disabled(i)

\* C2: a flip is accepted only in a round in play, for a position that is
\* not face-up and whose pair is not matched; so no position is face-up
\* twice and no face-up card belongs to a matched pair.
C2_FlipOnlyFresh ==
    /\ [](/\ \A j, k \in 1..Len(flipped) : j # k => flipped[j] # flipped[k]
          /\ \A k \in 1..Len(flipped) : cards[flipped[k]].id \notin matched)
    /\ [][Len(flipped') > Len(flipped) =>
            /\ game_state = "PLAYING"
            /\ ~TimeIsUp
            /\ \E i \in 1..Len(cards) :
                 /\ flipped' = Append(flipped, i)
                 /\ i \notin FaceUp
                 /\ cards[i].id \notin matched]_vars

\* A pair is matched, its cards stay on the table, and another card is
\* face-up.
C2_Witness ==
    /\ game_state = "PLAYING"
    /\ matched # {}
    /\ Len(flipped) = 1
    /\ \E i \in 1..Len(cards) : cards[i].id \in matched

\* C3: judging two face-up cards always clears the face-up list; a match
\* adds exactly one entry to the matched set, a mismatch leaves it unchanged.
C3_JudgingSettles ==
    [][Judging =>
         /\ flipped' = <<>>
         /\ IF cards[flipped[1]].id = cards[flipped[2]].id
            THEN /\ matched' = matched \cup {cards[flipped[1]].id}
                 /\ Cardinality(matched') = Cardinality(matched) + 1
            ELSE matched' = matched]_vars

\* A round in which a mismatch and then a match were judged.
C3_Witness ==
    /\ game_state = "PLAYING"
    /\ mistakes_now # <<>>
    /\ feedback = Gotcha
    /\ flipped = <<>>
    /\ Cardinality(matched) = 1


\* C4: a round is cleared (FINISHED with is_cleared) if and only if the
\* matched set covers every pair of its deck, for every word list a round is
\* started with.
C4_ClearedIffAllMatched ==
    (game_state \in {"PLAYING", "FINISHED"} /\ cards # <<>>) =>
        ((game_state = "FINISHED" /\ is_cleared) <=> matched = DeckIds)

\* C5: a round in play expires exactly when it is evaluated with the elapsed
\* time at or above its limit, and a finished round keeps its phase and its
\* cleared flag until a button leaves the result screen.
C5_ExpiresAtLimit ==
    [][/\ (game_state = "PLAYING" /\ game_state' = "FINISHED" /\ ~is_cleared')
            => elapsed >= time_limit
       /\ (game_state = "PLAYING" /\ elapsed >= time_limit /\ elapsed' = elapsed)
            => (game_state' = "FINISHED" /\ ~is_cleared')
       /\ game_state = "FINISHED"
            => \/ game_state' = "FINISHED" /\ is_cleared' = is_cleared
               \/ game_state' = "IDLE" /\ is_cleared' = is_cleared
               \/ game_state' = "PLAYING" /\ rounds' = rounds + 1]_vars

\* A round that expired when its elapsed time was exactly its limit.
C5_Witness ==
    /\ game_state = "FINISHED"
    /\ ~is_cleared
    /\ cards # <<>>
    /\ elapsed = time_limit

\* C6: in a NORMAL round a judged mismatch records the pair of both flipped
\* cards in mistakes_now, each pair at most once.
C6_BothMissesRecorded ==
    [][(Judging /\ current_mode = "NORMAL" /\ feedback' = Escaped) =>
         /\ cards[flipped[1]].id \in Range(mistakes_now')
         /\ cards[flipped[2]].id \in Range(mistakes_now')
         /\ \A j, k \in 1..Len(mistakes_now') :
              j # k => mistakes_now'[j] # mistakes_now'[k]]_vars

\* C7: a mismatch in a REVENGE round adds nothing to mistakes_now and
\* creates no row in mistaken_words, and the result screen of a REVENGE
\* round starts no further round.
C7_RevengeLogsNothing ==
    /\ [](current_mode = "REVENGE" => mistakes_now = <<>>)
    /\ [][(current_mode = "REVENGE" /\ game_state = "PLAYING") =>
            \A w \in Words :
                mistaken_words[w] = <<>> => mistaken_words'[w] = <<>>]_vars
    /\ [][(current_mode = "REVENGE" /\ game_state = "FINISHED") =>
            game_state' # "PLAYING"]_vars

\* A REVENGE round in which a mismatch was judged on a deck with a word
\* that has no row.
C7_Witness ==
    /\ current_mode = "REVENGE"
    /\ game_state = "PLAYING"
    /\ feedback = Escaped
    /\ \E w \in DeckIds : mistaken_words[w] = <<>>


----------------------------------------------------------------------------
(* Properties of the table mistaken_words *)

\* C8: recording a miss creates a row with count 0 only for a word that has
\* no row, and leaves the count of a word that has a row at its value, every
\* time a mismatch is judged in a NORMAL round.
C8_MissKeepsCount ==
    [][(Judging /\ current_mode = "NORMAL" /\ feedback' = Escaped) =>
         \A w \in Words :
            IF w = cards[flipped[1]].id /\ mistaken_words[w] = <<>>
            THEN mistaken_words'[w] \in {<<>>, <<0>>}
            ELSE mistaken_words'[w] = mistaken_words[w]]_vars

\* A NORMAL round in which a miss was recorded for a word whose row keeps
\* the count it had before the round.
C8_Witness ==
    /\ current_mode = "NORMAL"
    /\ feedback = Escaped
    /\ \E w \in Range(mistakes_now) : mistaken_words[w] = <<StartCount>>

\* C9: the count of a row changes only when its word is matched in a
\* REVENGE round, and then by exactly one; nothing in a NORMAL round changes
\* the count of a row.
C9_CountOnlyByRevengeMatch ==
    [][\A w \in Words :
         (/\ mistaken_words[w] # <<>>
          /\ mistaken_words'[w] # <<>>
          /\ mistaken_words'[w] # mistaken_words[w]) =>
            /\ current_mode = "REVENGE"
            /\ Judging
            /\ feedback' = Gotcha
            /\ cards[flipped[1]].id = w
            /\ Len(mistaken_words'[w]) = Len(mistaken_words[w])
            /\ \A k \in 1..Len(mistaken_words[w]) :
                 mistaken_words'[w][k] = mistaken_words[w][k] + 1]_vars

\* A REVENGE round in which a matched word's count went up by one.
C9_Witness ==
    /\ current_mode = "REVENGE"
    /\ feedback = Gotcha
    /\ \E w \in matched : mistaken_words[w] = <<StartCount + 1>>

\* C10: counting a success for a word that has no row is an error that the
\* execution does not pass over in silence: the matching execution differs
\* from one that counted nothing.
C10_MissingRowNotIgnored ==
    [][(/\ Judging
        /\ current_mode = "REVENGE"
        /\ feedback' = Gotcha
        /\ mistaken_words[cards[flipped[1]].id] = <<>>) =>
          ~(/\ mistaken_words' = mistaken_words
            /\ mastered_pending' = mastered_pending
            /\ collected_now' = Append(collected_now, cards[flipped[1]].id)
            /\ matched' = matched \cup {cards[flipped[1]].id}
            /\ last_matched_word' = cards[flipped[1]].id)]_vars

\* C11: in a REVENGE round a word becomes a graduation candidate exactly in
\* the execution whose match incremented its count to 10 or more: a count
\* of 9 that a match raises to 10 makes a candidate, and a match that leaves
\* the count below 10 makes none.
C11_CandidateIffReachedTen ==
    [][\A w \in Words :
         (w \in Range(mastered_pending') /\ w \notin Range(mastered_pending))
         <=>
         (/\ current_mode = "REVENGE"
          /\ Judging
          /\ feedback' = Gotcha
          /\ cards[flipped[1]].id = w
          /\ mistaken_words'[w] # mistaken_words[w]
          /\ mistaken_words'[w] # <<>>
          /\ mistaken_words'[w][1] >= 10)]_vars

\* A REVENGE round in which a count of exactly 10 made a candidate.
C11_Witness ==
    /\ current_mode = "REVENGE"
    /\ game_state # "IDLE"
    /\ \E w \in Range(mastered_pending) : mistaken_words[w] = <<10>>

\* C12: a row leaves the store only in the execution of the graduation
\* button, and only for a word that is a graduation candidate and whose
\* count is 10 or more; no other execution removes a row.
C12_DeletedOnlyOnConfirm ==
    [][\A w \in Words :
         (mistaken_words[w] # <<>> /\ mistaken_words'[w] = <<>>) =>
            /\ game_state = "FINISHED"
            /\ feedback' = Graduated
            /\ w \in Range(mastered_pending)
            /\ mastered_pending' = <<>>
            /\ mistaken_words[w][1] >= 10]_vars

\* The end of a list-backed REVENGE round after a candidate was deleted.
C12_Witness ==
    /\ game_state = "FINISHED"
    /\ current_mode = "REVENGE"
    /\ time_limit = RevengeTimeLimit
    /\ feedback = Graduated
    /\ mastered_pending = <<>>
    /\ \E w \in Range(collected_now) : mistaken_words[w] = <<>>

\* C13: the button that declines graduation leaves the store as it was:
\* every candidate still has its row, with the count that made it a
\* candidate.
C13_DeclineKeepsStore ==
    [][(/\ game_state = "FINISHED"
        /\ game_state' = "FINISHED"
        /\ mastered_pending # <<>>
        /\ mastered_pending' = <<>>
        /\ feedback' = Quiet) =>
          /\ mistaken_words' = mistaken_words
          /\ \A w \in Range(mastered_pending) :
                /\ mistaken_words'[w] # <<>>
                /\ mistaken_words'[w][1] >= 10]_vars

\* The end of a first round whose candidate was kept in the list.
C13_Witness ==
    /\ game_state = "FINISHED"
    /\ current_mode = "REVENGE"
    /\ rounds = 1
    /\ mastered_pending = <<>>
    /\ feedback = Quiet
    /\ \E w \in Range(collected_now) : mistaken_words[w] = <<10>>

\* C14: in the deck of every round each pairId is on exactly two cards, one
\* showing the term and one showing the translation (so a list of N words
\* gives 2N cards).
C14_EveryPairOnTwoCards ==
    \A id \in DeckIds :
        /\ Cardinality({i \in 1..Len(cards) :
                          cards[i].id = id /\ ~cards[i].is_jp}) = 1
        /\ Cardinality({i \in 1..Len(cards) :
                          cards[i].id = id /\ cards[i].is_jp}) = 1

\* C15: the deck of a NORMAL round is never under-populated: it has at
\* least as many pairs as the static table, and their terms are pairwise
\* distinct.
C15_NormalRoundFull ==
    (current_mode = "NORMAL") =>
        /\ Len(cards) >= 2 * Len(StaticWords)
        /\ Len(cards) = 2 * Cardinality(DeckIds)

\* C16: collected_now lists exactly the matched pairIds, each once, in the
\* order of their first match: it is a duplicate-free listing of matched,
\* a match appends its pairId at the end, and nothing else changes the list
\* but the start of a round, which empties it.
C16_CollectedIsMatched ==
    /\ [](/\ Range(collected_now) = matched
          /\ Len(collected_now) = Cardinality(matched))
    /\ [][\/ collected_now' = collected_now
          \/ /\ Judging
             /\ feedback' = Gotcha
             /\ collected_now' = Append(collected_now, cards[flipped[1]].id)
          \/ /\ game_state # "PLAYING"
             /\ game_state' = "PLAYING"
             /\ collected_now' = <<>>]_vars

\* A second round in which one pair has been matched, after a round in which
\* a pair was matched too.
C16_Witness ==
    /\ rounds = 2
    /\ game_state = "PLAYING"
    /\ Len(collected_now) = 1
    /\ matched = {collected_now[1]}
    /\ Len(cards) = 4

\* C17: a round never ends with two cards face-up that were not judged.
C17_NoUnjudgedPairAtFinish ==
    (game_state = "FINISHED") => Len(flipped) < 2

\* C19: the graduation candidates are pairwise distinct, are all among the
\* collected words, and there are none in a NORMAL round; a count goes up
\* only for a word that was not yet collected and is collected by the same
\* execution, and within a round a collected word stays collected, so no
\* count goes up twice in one round.
C19_CountedOncePerRound ==
    /\ [](/\ Cardinality(Range(mastered_pending)) = Len(mastered_pending)
          /\ Range(mastered_pending) \subseteq Range(collected_now)
          /\ (current_mode = "NORMAL" => mastered_pending = <<>>))
    /\ [][/\ \A w \in Words :
               (/\ mistaken_words[w] # <<>>
                /\ mistaken_words'[w] # <<>>
                /\ mistaken_words'[w] # mistaken_words[w]) =>
                  /\ w \notin Range(collected_now)
                  /\ w \in Range(collected_now')
          /\ (rounds' = rounds) =>
                Range(collected_now) \subseteq Range(collected_now')]_vars

\* A REVENGE round with two collected words, one of them a candidate.
C19_Witness ==
    /\ current_mode = "REVENGE"
    /\ Len(collected_now) = 2
    /\ Len(mastered_pending) = 1
    /\ \A w \in Range(collected_now) : mistaken_words[w] # <<>>

\* C18: every round that was started ends: from every state of a round in
\* play a state with the round FINISHED follows, when time passes and the
\* script is executed again.
C18_RoundEnds ==
    (game_state = "PLAYING") ~> (game_state = "FINISHED")

\* A round that expired after a pair was matched.
C18_Witness ==
    /\ game_state = "FINISHED"
    /\ ~is_cleared
    /\ matched # {}
    /\ elapsed >= time_limit

\* C20: the table holds at most one row per term, whatever store functions
\* the sessions run and however their requests interleave.
C20_OneRowPerTerm ==
    \A w \in Words : Len(mistaken_words[w]) <= 1

====
